---- MODULE Spec2Model ----
(***************************************************************************)
(* State-machine model of ga4_relational_pipeline.py: the incremental      *)
(* watermark, the date dimension, the transactional save of the three fact *)
(* tables and the retry-wrapped fetch.                                     *)
(*                                                                         *)
(* A text value (a stored date, a request bound, a date of a report row)   *)
(* is a sequence of character codes, so that SQLite's MAX over TEXT, the   *)
(* slicing of process_response and strptime/strftime are computed and not  *)
(* assumed.  A Python date object is the number of days since 1970-01-01.  *)
(* An optional value (None or a value) is <<>> or <<v>>.                   *)
(***************************************************************************)
EXTENDS Integers, Sequences, FiniteSets, TLC

\* ------------------------------------------------------------------ bounds
\* Number of times the pipeline process is launched.
MaxRuns == 2
\* Number of days the wall clock may advance over all runs.
MaxClock == 1
\* Number of days a dimension with legacy rows spans (SpecWatermark).
WatermarkDays == 3
\* The reporting source holds rows for this many most recent days of a window.
SourceSpan == 2

\* ------------------------------------------------------- program constants
\* timedelta(days=30), the default look-back of main.
DefaultLookback == 30
\* stop_after_attempt(3) of the retry decorator of fetch_ga4_data.
MaxAttempts == 3

Procs == {"p1", "p2"}
None == <<>>
Some(v) == <<v>>

\* ------------------------------------------------------------ the calendar
IsLeap(y) == (y % 4 = 0 /\ y % 100 # 0) \/ y % 400 = 0

DaysInMonth(y, m) ==
    IF m = 2 THEN (IF IsLeap(y) THEN 29 ELSE 28)
    ELSE IF m \in {4, 6, 9, 11} THEN 30 ELSE 31

\* datetime.date(y, m, d) as days since 1970-01-01 (proleptic Gregorian).
DaysFromCivil(y, m, d) ==
    LET yy  == IF m <= 2 THEN y - 1 ELSE y
        era == yy \div 400
        yoe == yy - era * 400
        mp  == (m + 9) % 12
        doy == (153 * mp + 2) \div 5 + d - 1
        doe == yoe * 365 + yoe \div 4 - yoe \div 100 + doy
    IN  era * 146097 + doe - 719468

\* The (year, month, day) of a date object.
CivilFromDays(z) ==
    LET zz  == z + 719468
        era == zz \div 146097
        doe == zz - era * 146097
        yoe == (doe - doe \div 1460 + doe \div 36524 - doe \div 146096) \div 365
        doy == doe - (365 * yoe + yoe \div 4 - yoe \div 100)
        mp  == (5 * doy + 2) \div 153
        d   == doy - (153 * mp + 2) \div 5 + 1
        m   == IF mp < 10 THEN mp + 3 ELSE mp - 9
        y   == yoe + era * 400 + (IF m <= 2 THEN 1 ELSE 0)
    IN  [y |-> y, m |-> m, d |-> d]

\* ------------------------------------------------------------------- text
Hyphen == <<45>>
IsDigit(c) == c >= 48 /\ c <= 57
TwoDigits(n) == <<48 + ((n \div 10) % 10), 48 + (n % 10)>>
FourDigits(n) == TwoDigits(n \div 100) \o TwoDigits(n % 100)
AllDigits(s) == \A i \in 1..Len(s) : IsDigit(s[i])

RECURSIVE ToNumber(_)
ToNumber(s) ==
    IF s = <<>> THEN 0
    ELSE 10 * ToNumber(SubSeq(s, 1, Len(s) - 1)) + (s[Len(s)] - 48)

\* Python's slice s[a:b] (0-based, end exclusive, clipped to the string).
Slice(s, a, b) ==
    LET hi == IF b < Len(s) THEN b ELSE Len(s)
    IN  IF a >= hi THEN <<>> ELSE SubSeq(s, a + 1, hi)

\* Byte-wise order of two texts (SQLite's BINARY collation): a < b.
RECURSIVE TextLess(_, _)
TextLess(a, b) ==
    IF b = <<>> THEN FALSE
    ELSE IF a = <<>> THEN TRUE
    ELSE IF a[1] # b[1] THEN a[1] < b[1]
    ELSE TextLess(Tail(a), Tail(b))

\* date.strftime('%Y-%m-%d')
FormatISO(day) ==
    LET c == CivilFromDays(day)
    IN  FourDigits(c.y) \o Hyphen \o TwoDigits(c.m) \o Hyphen \o TwoDigits(c.d)

\* The compact YYYYMMDD text the reporting source uses for its date dimension.
FormatCompact(day) ==
    LET c == CivilFromDays(day)
    IN  FourDigits(c.y) \o TwoDigits(c.m) \o TwoDigits(c.d)

\* The date object of validated year/month/day texts, or None (ValueError).
MakeDate(ys, ms, ds) ==
    IF ~(AllDigits(ys) /\ AllDigits(ms) /\ AllDigits(ds)) THEN None
    ELSE LET y == ToNumber(ys)
             m == ToNumber(ms)
             d == ToNumber(ds)
         IN  IF y >= 1 /\ m >= 1 /\ m <= 12 /\ d >= 1 /\ d <= DaysInMonth(y, m)
             THEN Some(DaysFromCivil(y, m, d))
             ELSE None

\* datetime.strptime(s, '%Y-%m-%d').date() on zero-padded text; None is ValueError.
ParseISO(s) ==
    IF Len(s) = 10 /\ SubSeq(s, 5, 5) = Hyphen /\ SubSeq(s, 8, 8) = Hyphen
    THEN MakeDate(SubSeq(s, 1, 4), SubSeq(s, 6, 7), SubSeq(s, 9, 10))
    ELSE None

\* datetime.strptime(s, '%Y%m%d').date() on zero-padded text; None is ValueError.
ParseCompact(s) ==
    IF Len(s) = 8
    THEN MakeDate(SubSeq(s, 1, 4), SubSeq(s, 5, 6), SubSeq(s, 7, 8))
    ELSE None

\* formatted_date of process_response: three slices joined by hyphens.
FormattedDate(ga4_date) ==
    Slice(ga4_date, 0, 4) \o Hyphen \o Slice(ga4_date, 4, 6) \o Hyphen
        \o Slice(ga4_date, 6, 8)


\* ---------------------------------------------------------------- state
VARIABLES
    today,             \* datetime.now().date(), the wall clock's day
    schema,            \* TRUE once init_db has created the four tables
    dates,             \* committed rows of table dates, in insertion order
    user_interaction,  \* committed rows of table user_interaction
    content_metrics,   \* committed rows of table content_metrics
    site_data,         \* committed rows of table site_data
    writer,            \* the process holding SQLite's write lock, or None
    run,               \* per process: position in main and its local values
    launched,          \* how many times the pipeline was launched
    resolved,          \* history: every (text, date_id) get_or_create_date_id returned
    prev_failed        \* history: window start of the last run whose save failed

vars == <<today, schema, dates, user_interaction, content_metrics, site_data,
          writer, run, launched, resolved, prev_failed>>

store == [dates |-> dates, users |-> user_interaction,
          content |-> content_metrics, site |-> site_data]

\* The first day on which the pipeline is launched.
FirstToday == DaysFromCivil(2023, 12, 31)

Range(f) == {f[i] : i \in DOMAIN f}

EmptyData == [users |-> <<>>, content |-> <<>>, site |-> <<>>]

\* ------------------------------------------------------------ the tables
\* SELECT MAX(date) FROM dates: the greatest text, NULL on an empty table.
SelectMaxDate(rows) ==
    IF rows = <<>> THEN None
    ELSE Some(CHOOSE t \in {r.date : r \in Range(rows)} :
                \A u \in {r.date : r \in Range(rows)} : ~TextLess(t, u))

\* Variant: the WHERE clause does not select the row; the newest row's id is read.
SelectDateIdNewest(rows, date_str) ==
    IF \E r \in Range(rows) : r.date = date_str
    THEN Some(rows[Len(rows)].date_id)
    ELSE None

\* SELECT date_id FROM dates WHERE date = ? ; fetchone()
SelectDateId(rows, date_str) ==
    IF \E r \in Range(rows) : r.date = date_str
    THEN Some((CHOOSE r \in Range(rows) : r.date = date_str).date_id)
    ELSE None

\* The rowid AUTOINCREMENT gives the next row of a table that never deletes.
NextRowId(ids) ==
    IF ids = {} THEN 1 ELSE 1 + CHOOSE i \in ids : \A j \in ids : j <= i

\* Variant: dates.date is declared without UNIQUE, any text can be inserted.
UniqueDateOff(rows, date_str) == TRUE

\* UNIQUE(date): whether INSERT INTO dates (date) VALUES (?) is accepted.
UniqueDateOk(rows, date_str) == \A r \in Range(rows) : r.date # date_str

\* Variant: an id one past the inserted row's is returned.
LastRowIdOffByOne(rows) == rows[Len(rows)].date_id + 1

\* cursor.lastrowid after the INSERT of get_or_create_date_id.
LastRowId(rows) == rows[Len(rows)].date_id

\* ------------------------------------------------- get_last_date (try block)
GetLastDateValue(rows) ==
    LET last_date == SelectMaxDate(rows)
    IN  IF last_date = None \/ last_date[1] = <<>> THEN None
        ELSE IF ParseISO(last_date[1]) # None THEN ParseISO(last_date[1])
        ELSE ParseCompact(last_date[1])

\* -------------------------------------------------- main: the fetch window
\* Variant: the window starts on the last ingested day itself.
StartDateNoIncrement(last_date, end_date) ==
    IF last_date # None THEN last_date[1] ELSE end_date - DefaultLookback

StartDate(last_date, end_date) ==
    IF last_date # None THEN last_date[1] + 1 ELSE end_date - DefaultLookback

\* Variant: a window of one day past today is still fetched.
NoNewDataOffByOne(start_date, end_date) == start_date > end_date + 1

NoNewData(start_date, end_date) == start_date > end_date

\* ------------------------------------------------ the retry of the fetch
\* Variant: one attempt more than stop_after_attempt allows.
RetryStopOneMore(attempt_number) == attempt_number >= MaxAttempts + 1

RetryStop(attempt_number) == attempt_number >= MaxAttempts

\* ------------------------------------------------------ the reporting source
\* The days of the requested range the source holds rows for.
SourceDays(start_text, end_text) ==
    LET s == ParseISO(start_text)[1]
        e == ParseISO(end_text)[1]
    IN  {d \in (e - SourceSpan + 1)..e : d >= s}

RECURSIVE SortedSeq(_)
SortedSeq(S) ==
    IF S = {} THEN <<>>
    ELSE LET m == CHOOSE x \in S : \A y \in S : x <= y
         IN  <<m>> \o SortedSeq(S \ {m})

\* Rows of one report: the first dimension value is the compact date.
ReportRows(days) ==
    LET order == SortedSeq(days)
    IN  [i \in 1..Len(order) |-> [date |-> FormatCompact(order[i])]]

\* process_response: one entry per row, the date re-formatted by slicing.  The
\* metric values are copied through unchanged and are left out; the second
\* dimension of a content or site row is one fixed title or search term.
ProcessResponse(rows, type) ==
    [i \in 1..Len(rows) |->
        IF type = "user" THEN [date |-> FormattedDate(rows[i].date)]
        ELSE IF type = "content"
        THEN [date |-> FormattedDate(rows[i].date), page_title |-> "Home"]
        ELSE [date |-> FormattedDate(rows[i].date), search_Term |-> "shoes"]]

\* ------------------------------------------------------------- save_data
\* Variant: main has no check for an empty response.
AllEmptyUnchecked(data) == FALSE

\* df.empty for each of data.values()
AllEmpty(data) == data.users = <<>> /\ data.content = <<>> /\ data.site = <<>>

\* df['date'] raises KeyError on a frame built from no entries (no columns).
HasDateColumn(df) == df # <<>>

AllDates(data) ==
    {r.date : r \in Range(data.users)} \cup {r.date : r \in Range(data.content)}
        \cup {r.date : r \in Range(data.site)}

\* Variant: the connection is in autocommit mode, executed rows stay.
AfterRollbackAutocommit(table, rows) == table \o rows

\* conn.rollback(): a table after the rows of the open transaction are discarded.
AfterRollback(table, rows) == table

\* Variant: the commit is left to the end of save_data, after the export; the
\* rows are not yet durable when the export starts.
CommittedAfterExport(table, rows) == table

\* conn.commit(): a table after the transaction's rows are made durable.
Committed(table, rows) == table \o rows


\* ------------------------------------------------------------ processes
\* The locals of main and of the functions it calls, and the run's history:
\* pre (the store when the run began), fetch_called, save_calls, discarded (the
\* rows of the open transaction a rollback dropped), retry_of (the window start
\* of the previous run when that run's save failed).  responses holds the
\* reports the current attempt of fetch_ga4_data has received and issued the
\* queries the call has sent, each with the number of its attempt; both are
\* kept by the steps that follow the call query by query.
IdleRun ==
    [pc |-> "idle", exit_code |-> None, cause |-> "none",
     last_date |-> None, start_date |-> 0, end_date |-> 0,
     attempts |-> 0, data |-> EmptyData,
     all_dates |-> {}, date_str |-> <<>>, date_map |-> {},
     pending |-> EmptyData,
     pre |-> [dates |-> <<>>, users |-> <<>>, content |-> <<>>, site |-> <<>>],
     fetch_called |-> FALSE, save_calls |-> 0, discarded |-> 0,
     retry_of |-> None, responses |-> <<>>, issued |-> <<>>]

OffRun == [IdleRun EXCEPT !.pc = "off"]

Set(p, r) == run' = [run EXCEPT ![p] = r]

\* Variant: main's handler logs the error and returns, the status is 0.
ExitStatusZero(r, code, cause) ==
    [r EXCEPT !.pc = "exited", !.exit_code = Some(0), !.cause = cause,
              !.data = EmptyData, !.all_dates = {}, !.date_str = <<>>,
              !.date_map = {}, !.pending = EmptyData, !.responses = <<>>]

\* The process ends with the given exit status; its objects are gone.
Exit(r, code, cause) ==
    [r EXCEPT !.pc = "exited", !.exit_code = Some(code), !.cause = cause,
              !.data = EmptyData, !.all_dates = {}, !.date_str = <<>>,
              !.date_map = {}, !.pending = EmptyData, !.responses = <<>>]

\* date_map[date_str]
MapGet(date_map, date_str) == (CHOOSE e \in date_map : e[1] = date_str)[2]

Init ==
    /\ today = FirstToday
    /\ schema = FALSE
    /\ dates = <<>>
    /\ user_interaction = <<>>
    /\ content_metrics = <<>>
    /\ site_data = <<>>
    /\ writer = None
    /\ run = [p \in Procs |-> IF p = "p1" THEN IdleRun ELSE OffRun]
    /\ launched = 0
    /\ resolved = {}
    /\ prev_failed = None

\* The scheduler launches the process, on the day of the previous launch or on
\* a later day: main() is entered.  (main reads the clock once per run.)
Start(p) ==
    /\ run[p].pc \in {"idle", "exited"}
    /\ launched < MaxRuns
    /\ launched' = launched + 1
    /\ \E day \in today..(FirstToday + MaxClock) : today' = day
    /\ Set(p, [IdleRun EXCEPT !.pc = "init_db", !.pre = store,
                              !.retry_of = prev_failed])
    /\ prev_failed' = None
    /\ UNCHANGED <<schema, dates, user_interaction, content_metrics,
                   site_data, writer, resolved>>

\* Variant: init_db drops and recreates the table.
CreateOrReplace(table) == <<>>

\* CREATE TABLE IF NOT EXISTS: an existing table keeps its rows.
CreateIfNotExists(table) == table

\* init_db(): CREATE TABLE IF NOT EXISTS for the four tables, commit.
InitDb(p) ==
    /\ run[p].pc = "init_db"
    /\ schema' = TRUE
    /\ dates' = CreateIfNotExists(dates)
    /\ user_interaction' = CreateIfNotExists(user_interaction)
    /\ content_metrics' = CreateIfNotExists(content_metrics)
    /\ site_data' = CreateIfNotExists(site_data)
    /\ Set(p, [run[p] EXCEPT !.pc = "get_last_date"])
    /\ UNCHANGED <<today, writer, launched, resolved, prev_failed>>

\* init_db() raises (storage unreachable): outside main's try, the process dies.
InitDbFail(p) ==
    /\ run[p].pc = "init_db"
    /\ Set(p, Exit(run[p], 1, "init_db"))
    /\ UNCHANGED <<today, schema, dates, user_interaction, content_metrics,
                   site_data, writer, launched, resolved, prev_failed>>

\* get_last_date(): the parsed maximum of dates.date, None on an empty table or
\* when parsing raises.
GetLastDate(p) ==
    /\ run[p].pc = "get_last_date"
    /\ Set(p, [run[p] EXCEPT !.pc = "window", !.last_date = GetLastDateValue(dates)])
    /\ UNCHANGED <<today, schema, dates, user_interaction, content_metrics,
                   site_data, writer, launched, resolved, prev_failed>>

\* get_last_date(): the query raises inside the try; the handler logs and
\* returns None.
GetLastDateFail(p) ==
    /\ run[p].pc = "get_last_date"
    /\ Set(p, [run[p] EXCEPT !.pc = "window", !.last_date = None])
    /\ UNCHANGED <<today, schema, dates, user_interaction, content_metrics,
                   site_data, writer, launched, resolved, prev_failed>>

\* get_last_date(): sqlite3.connect raises; the call is outside the function's
\* try, so the error reaches main's handler, which exits with status 1.
GetLastDateConnectFail(p) ==
    /\ run[p].pc = "get_last_date"
    /\ Set(p, Exit(run[p], 1, "get_last_date"))
    /\ UNCHANGED <<today, schema, dates, user_interaction, content_metrics,
                   site_data, writer, launched, resolved, prev_failed>>

\* main: end_date, start_date and the "No new data to fetch" return.
Window(p) ==
    /\ run[p].pc = "window"
    /\ LET end_date   == today
           start_date == StartDate(run[p].last_date, end_date)
           r == [run[p] EXCEPT !.start_date = start_date, !.end_date = end_date]
       IN  Set(p, IF NoNewData(start_date, end_date)
                  THEN Exit(r, 0, "skip")
                  ELSE [r EXCEPT !.pc = "fetch"])
    /\ UNCHANGED <<today, schema, dates, user_interaction, content_metrics,
                   site_data, writer, launched, resolved, prev_failed>>

\* One attempt of fetch_ga4_data in which the three reports and their
\* normalisation succeed: the call returns and the retry state is dropped.
\* The source reports any set of days of the range it holds rows for; each of
\* the three reports has one row per such day or no row at all.
FetchAttempt(p) ==
    /\ run[p].pc = "fetch"
    /\ LET start_text == FormatISO(run[p].start_date)
           end_text   == FormatISO(run[p].end_date)
           days       == SourceDays(start_text, end_text)
       IN  \E seen \in SUBSET days, has \in [{"users", "content", "site"} -> BOOLEAN] :
            LET du == IF has.users THEN seen ELSE {}
                dc == IF has.content THEN seen ELSE {}
                ds == IF has.site THEN seen ELSE {}
            IN
              Set(p, [run[p] EXCEPT
                        !.pc = "fetched",
                        !.attempts = 0,
                        !.fetch_called = TRUE,
                        !.data = [users   |-> ProcessResponse(ReportRows(du), "user"),
                                  content |-> ProcessResponse(ReportRows(dc), "content"),
                                  site    |-> ProcessResponse(ReportRows(ds), "site")]])
    /\ UNCHANGED <<today, schema, dates, user_interaction, content_metrics,
                   site_data, writer, launched, resolved, prev_failed>>

\* One attempt of fetch_ga4_data that raises: retried, or after the last attempt
\* the error reaches main, which exits with status 1.
FetchAttemptFail(p) ==
    /\ run[p].pc = "fetch"
    /\ LET r == [run[p] EXCEPT !.attempts = @ + 1, !.fetch_called = TRUE]
       IN  Set(p, IF RetryStop(r.attempts) THEN Exit(r, 1, "fetch") ELSE r)
    /\ UNCHANGED <<today, schema, dates, user_interaction, content_metrics,
                   site_data, writer, launched, resolved, prev_failed>>

\* main: "No data returned from GA4 API" when every frame is empty, else save_data
\* is called.
CheckEmpty(p) ==
    /\ run[p].pc = "fetched"
    /\ Set(p, IF AllEmpty(run[p].data)
              THEN Exit(run[p], 0, "empty")
              ELSE [run[p] EXCEPT !.pc = "save_collect", !.save_calls = @ + 1])
    /\ UNCHANGED <<today, schema, dates, user_interaction, content_metrics,
                   site_data, writer, launched, resolved, prev_failed>>


PendingCount(pending) ==
    Len(pending.users) + Len(pending.content) + Len(pending.site)

\* save_data's handler: conn.rollback(), log, re-raise; main then exits with 1.
SaveRaise(p, cause) ==
    /\ user_interaction' = AfterRollback(user_interaction, run[p].pending.users)
    /\ content_metrics' = AfterRollback(content_metrics, run[p].pending.content)
    /\ site_data' = AfterRollback(site_data, run[p].pending.site)
    /\ writer' = IF writer = Some(p) THEN None ELSE writer
    /\ Set(p, Exit([run[p] EXCEPT !.discarded = PendingCount(run[p].pending)],
                    1, cause))
    /\ prev_failed' = IF cause = "export" THEN prev_failed
                      ELSE Some(run[p].start_date)

\* save_data: the union of the frames' date columns; KeyError when a frame has
\* no date column.
SaveCollect(p) ==
    /\ run[p].pc = "save_collect"
    /\ LET data == run[p].data
       IN  IF HasDateColumn(data.users) /\ HasDateColumn(data.content)
              /\ HasDateColumn(data.site)
           THEN /\ Set(p, [run[p] EXCEPT !.pc = "resolve",
                                         !.all_dates = AllDates(data),
                                         !.date_map = {}])
                /\ UNCHANGED <<user_interaction, content_metrics, site_data,
                               writer, prev_failed>>
           ELSE SaveRaise(p, "save_collect")
    /\ UNCHANGED <<today, schema, dates, launched, resolved>>

\* The position after a date of all_dates got its date_id.
Mapped(r, date_str, date_id) ==
    LET rest == r.all_dates \ {date_str}
    IN  [r EXCEPT !.all_dates = rest,
                  !.date_map = @ \cup {<<date_str, date_id>>},
                  !.pc = IF rest = {} THEN "users" ELSE "resolve"]

\* get_or_create_date_id: the SELECT; a found row is returned at once.
DateLookup(p) ==
    /\ run[p].pc = "resolve"
    /\ \E date_str \in run[p].all_dates :
          LET result == SelectDateId(dates, date_str)
          IN  IF result # None
              THEN /\ Set(p, Mapped(run[p], date_str, result[1]))
                   /\ resolved' = resolved \cup {<<date_str, result[1]>>}
              ELSE /\ Set(p, [run[p] EXCEPT !.pc = "date_insert",
                                            !.date_str = date_str])
                   /\ UNCHANGED resolved
    /\ UNCHANGED <<today, schema, dates, user_interaction, content_metrics,
                   site_data, writer, launched, prev_failed>>

\* get_or_create_date_id: the SELECT raises; the error passes through save_data.
DateLookupFail(p) ==
    /\ run[p].pc = "resolve"
    /\ SaveRaise(p, "resolve")
    /\ UNCHANGED <<today, schema, dates, launched, resolved>>

\* get_or_create_date_id: INSERT, commit on its own connection, return lastrowid.
\* The INSERT raises on a duplicate text (UNIQUE) or a held write lock.
DateInsert(p) ==
    /\ run[p].pc = "date_insert"
    /\ LET date_str == run[p].date_str
       IN  IF UniqueDateOk(dates, date_str) /\ writer \in {None, Some(p)}
           THEN LET rows == Append(dates,
                              [date_id |-> NextRowId({r.date_id : r \in Range(dates)}),
                               date |-> date_str])
                IN  /\ dates' = rows
                    /\ Set(p, Mapped(run[p], date_str, LastRowId(rows)))
                    /\ resolved' = resolved \cup {<<date_str, LastRowId(rows)>>}
                    /\ UNCHANGED <<user_interaction, content_metrics, site_data,
                                   writer, prev_failed>>
           ELSE /\ SaveRaise(p, "date_insert")
                /\ UNCHANGED <<dates, resolved>>
    /\ UNCHANGED <<today, schema, launched>>

\* get_or_create_date_id: the INSERT or its commit raises for a storage error.
DateInsertFail(p) ==
    /\ run[p].pc = "date_insert"
    /\ SaveRaise(p, "date_insert")
    /\ UNCHANGED <<today, schema, dates, launched, resolved>>

\* The fact row of one entry: the date_id from date_map and the entry's fields.
FactRow(entry, date_map, id) ==
    [c \in (DOMAIN entry \ {"date"}) \cup {"id", "date_id"} |->
        IF c = "id" THEN id
        ELSE IF c = "date_id" THEN MapGet(date_map, entry.date)
        ELSE entry[c]]

\* Variant: INSERT OR IGNORE on the date, an entry whose date the table already
\* holds adds no row.
InsertedOrIgnore(table, df, date_map, n) ==
    LET first == NextRowId({x.id : x \in Range(table)})
        Fresh(x) == x.date_id \notin {y.date_id : y \in Range(table)}
    IN  SelectSeq([i \in 1..n |-> FactRow(df[i], date_map, first + i - 1)], Fresh)

\* The rows one "for _, row in df.iterrows(): cursor.execute(INSERT ...)" loop adds
\* to the open transaction for the first n entries of the frame.
Inserted(table, df, date_map, n) ==
    LET first == NextRowId({x.id : x \in Range(table)})
    IN  [i \in 1..n |-> FactRow(df[i], date_map, first + i - 1)]

TableOf(t) ==
    IF t = "users" THEN user_interaction
    ELSE IF t = "content" THEN content_metrics ELSE site_data

\* The loop after the loop over t, or the commit.
After(t) ==
    IF t = "users" THEN "content" ELSE IF t = "content" THEN "site" ELSE "commit"

Tables == {"users", "content", "site"}

\* save_data: one of the three insert loops runs to its end inside the
\* connection's transaction (users, then content, then site).
InsertFacts(p) ==
    /\ run[p].pc \in Tables
    /\ writer \in {None, Some(p)}
    /\ LET t == run[p].pc
           df == run[p].data[t]
       IN  Set(p, [run[p] EXCEPT
                     !.pending[t] = Inserted(TableOf(t), df, run[p].date_map, Len(df)),
                     !.pc = After(t)])
    /\ writer' = Some(p)
    /\ UNCHANGED <<today, schema, dates, user_interaction, content_metrics,
                   site_data, launched, resolved, prev_failed>>

\* save_data: an INSERT of one of the loops raises, after the loop executed n
\* of its INSERTs; the handler rolls back.
InsertFactsFail(p) ==
    /\ run[p].pc \in Tables
    /\ LET t == run[p].pc
           df == run[p].data[t]
       IN  \E n \in 0..(Len(df) - 1) :
             LET r == [run[p] EXCEPT
                         !.pending[t] = Inserted(TableOf(t), df, run[p].date_map, n)]
             IN  /\ user_interaction' = AfterRollback(user_interaction, r.pending.users)
                 /\ content_metrics' = AfterRollback(content_metrics, r.pending.content)
                 /\ site_data' = AfterRollback(site_data, r.pending.site)
                 /\ Set(p, Exit([r EXCEPT !.discarded = PendingCount(r.pending)],
                                 1, "insert"))
    /\ writer' = IF writer = Some(p) THEN None ELSE writer
    /\ prev_failed' = Some(run[p].start_date)
    /\ UNCHANGED <<today, schema, dates, launched, resolved>>

\* save_data: conn.commit() makes the transaction's fact rows durable.
Commit(p) ==
    /\ run[p].pc = "commit"
    /\ user_interaction' = Committed(user_interaction, run[p].pending.users)
    /\ content_metrics' = Committed(content_metrics, run[p].pending.content)
    /\ site_data' = Committed(site_data, run[p].pending.site)
    /\ writer' = None
    /\ Set(p, [run[p] EXCEPT !.pc = "export", !.pending = EmptyData])
    /\ UNCHANGED <<today, schema, dates, launched, resolved, prev_failed>>

\* save_data: conn.commit() raises.
CommitFail(p) ==
    /\ run[p].pc = "commit"
    /\ SaveRaise(p, "commit")
    /\ UNCHANGED <<today, schema, dates, launched, resolved>>

\* save_data: the three CSV files are written; main logs success and returns.
Export(p) ==
    /\ run[p].pc = "export"
    /\ Set(p, Exit(run[p], 0, "saved"))
    /\ UNCHANGED <<today, schema, dates, user_interaction, content_metrics,
                   site_data, writer, launched, resolved, prev_failed>>

\* save_data: writing a CSV file raises after the commit.
ExportFail(p) ==
    /\ run[p].pc = "export"
    /\ SaveRaise(p, "export")
    /\ UNCHANGED <<today, schema, dates, launched, resolved>>

Step(p) ==
    \/ Start(p)
    \/ InitDb(p)
    \/ InitDbFail(p)
    \/ GetLastDate(p)
    \/ GetLastDateFail(p)
    \/ GetLastDateConnectFail(p)
    \/ Window(p)
    \/ FetchAttempt(p)
    \/ FetchAttemptFail(p)
    \/ CheckEmpty(p)
    \/ SaveCollect(p)
    \/ DateLookup(p)
    \/ DateLookupFail(p)
    \/ DateInsert(p)
    \/ DateInsertFail(p)
    \/ InsertFacts(p)
    \/ InsertFactsFail(p)
    \/ Commit(p)
    \/ CommitFail(p)
    \/ Export(p)
    \/ ExportFail(p)

Next == \E p \in Procs : Step(p)

Spec == Init /\ [][Next]_vars


\* ===================================================================== claims
DateIds(rows) == {r.date_id : r \in Range(rows)}

FactsOf(st) == <<st.users, st.content, st.site>>

\* The run has computed its window.
PastWindow(r) ==
    /\ r.pc \notin {"off", "idle", "init_db", "get_last_date", "window"}
    /\ r.cause \notin {"init_db", "get_last_date"}

\* The run ended because save_data raised before its commit.
SaveFailed(r) ==
    /\ r.pc = "exited"
    /\ r.cause \in {"save_collect", "resolve", "date_insert", "insert", "commit"}

\* The calendar day a stored text denotes (hyphenated or compact).
DayOf(text) == IF ParseISO(text) # None THEN ParseISO(text) ELSE ParseCompact(text)

\* The chronologically latest day of a non-empty dimension.
LatestDay(rows) ==
    CHOOSE d \in {DayOf(r.date)[1] : r \in Range(rows)} :
        \A r \in Range(rows) : DayOf(r.date)[1] <= d

\* C1: with a single writer, user_interaction never holds two rows that
\* reference the same calendar date, whatever the sequence of runs (succeeding,
\* skipping, failing, or with get_last_date degrading to None).
C1_ExactlyOncePerDate ==
    \A i, j \in DOMAIN user_interaction :
        i # j => user_interaction[i].date_id # user_interaction[j].date_id

\* C2: a run that exits with status 1 because save_data raised during date
\* resolution or fact insertion leaves the dates table and the three fact
\* tables as they were when the run began.
C2_AllOrNothingRun ==
    \A p \in Procs :
        (/\ run[p].pc = "exited"
         /\ run[p].exit_code = Some(1)
         /\ run[p].cause \in {"resolve", "date_insert", "insert"})
        => store = run[p].pre

\* C3: get_last_date returns a day only if fact rows of the run that put the day
\* into the dimension were committed, and the window of the run after a failed
\* save starts at or before the failed window's start.  (Stated for the runs in
\* which get_last_date returns a day; the default window of an unknown
\* watermark moves with the clock and is left aside.)
C3_WatermarkIsLastIngested ==
    \A p \in Procs :
        /\ (run[p].pc = "window" /\ run[p].last_date # None)
           => \E r \in Range(dates) :
                /\ DayOf(r.date) = run[p].last_date
                /\ \E f \in Range(user_interaction) \cup Range(content_metrics)
                             \cup Range(site_data) : f.date_id = r.date_id
        /\ (PastWindow(run[p]) /\ run[p].retry_of # None /\ run[p].last_date # None)
           => run[p].start_date <= run[p].retry_of[1]

\* C4: when an INSERT of a fact row raises inside save_data, no fact row of that
\* call is in the store afterwards and the error reaches the caller (exit 1).
C4_FactAtomicity ==
    \A p \in Procs :
        (run[p].pc = "exited" /\ run[p].cause = "insert")
        => /\ run[p].exit_code = Some(1)
           /\ FactsOf(store) = FactsOf(run[p].pre)

\* C4 witness: an INSERT raised after rows of the call were executed.
C4_Witness ==
    \E p \in Procs :
        run[p].pc = "exited" /\ run[p].cause = "insert" /\ run[p].discarded > 1

\* C5: every committed fact row, and every fact row executed in an open
\* transaction, carries the date_id of a row that is in dates.
C5_ReferentialIntegrity ==
    /\ \A f \in Range(user_interaction) \cup Range(content_metrics)
                  \cup Range(site_data) : f.date_id \in DateIds(dates)
    /\ \A p \in Procs :
         \A f \in Range(run[p].pending.users) \cup Range(run[p].pending.content)
                    \cup Range(run[p].pending.site) : f.date_id \in DateIds(dates)

\* C5 witness: the three fact tables hold rows after a later run failed in save.
C5_Witness ==
    /\ user_interaction # <<>> /\ content_metrics # <<>> /\ site_data # <<>>
    /\ \E p \in Procs : SaveFailed(run[p]) /\ Len(dates) > Len(user_interaction)

\* C6: under a single writer every call of get_or_create_date_id for a text
\* returns the same date_id, and dates never holds two rows with one text.
C6_IdempotentDateDimension ==
    /\ \A i, j \in DOMAIN dates : i # j => dates[i].date # dates[j].date
    /\ \A a, b \in resolved : a[1] = b[1] => a[2] = b[2]
    /\ \A a \in resolved : \E r \in Range(dates) : r.date = a[1] /\ r.date_id = a[2]

\* C6 witness: a run resolved a text that a previous run had already resolved.
C6_Witness ==
    \E p \in Procs :
        /\ run[p].pc \in {"resolve", "users"}
        /\ \E e \in run[p].date_map :
             \E r \in Range(run[p].pre.dates) : r.date = e[1] /\ r.date_id = e[2]


\* ------------------------------------------ get_last_date on legacy tables
\* The texts a dimension written partly by the legacy code may hold: each day in
\* the canonical YYYY-MM-DD form or in the compact YYYYMMDD form.
LegacyTexts ==
    UNION {{FormatISO(d), FormatCompact(d)} :
             d \in (FirstToday - WatermarkDays + 1)..FirstToday}

RECURSIVE RowsFrom(_, _)
RowsFrom(texts, first_id) ==
    IF texts = {} THEN <<>>
    ELSE LET t == CHOOSE x \in texts : \A y \in texts : ~TextLess(y, x)
         IN  <<[date_id |-> first_id, date |-> t]>>
                \o RowsFrom(texts \ {t}, first_id + 1)

\* A process is about to call get_last_date on a dimension that holds any set
\* of canonical and legacy rows.
InitWatermark ==
    /\ today = FirstToday
    /\ schema = TRUE
    /\ \E texts \in SUBSET LegacyTexts : dates = RowsFrom(texts, 1)
    /\ user_interaction = <<>>
    /\ content_metrics = <<>>
    /\ site_data = <<>>
    /\ writer = None
    /\ run = [p \in Procs |->
                IF p = "p1"
                THEN [IdleRun EXCEPT !.pc = "get_last_date",
                                     !.pre = [dates |-> dates, users |-> <<>>,
                                              content |-> <<>>, site |-> <<>>]]
                ELSE OffRun]
    /\ launched = 1
    /\ resolved = {}
    /\ prev_failed = None

NextWatermark == GetLastDate("p1") \/ Window("p1")

SpecWatermark == InitWatermark /\ [][NextWatermark]_vars

\* C7: get_last_date returns the chronologically latest day of a non-empty
\* dimension whose rows are canonical, compact or a mix of both, and None on
\* an empty dimension.
C7_LastDateIsLatestDay ==
    \A p \in Procs :
        run[p].pc = "window"
        => run[p].last_date = IF dates = <<>> THEN None ELSE Some(LatestDay(dates))

\* C8: the window starts the day after the dimension's maximum date, or 30 days
\* before today when the dimension is empty or the watermark is unknown, and
\* ends today.
C8_WindowComputation ==
    \A p \in Procs :
        PastWindow(run[p])
        => /\ run[p].end_date = today
           /\ run[p].start_date =
                IF run[p].pre.dates # <<>> /\ run[p].last_date # None
                THEN LatestDay(run[p].pre.dates) + 1
                ELSE today - 30

\* C8 witness: a run fetches the window that starts the day after a stored
\* maximum date.
C8_Witness ==
    \E p \in Procs :
        /\ run[p].pc = "fetch"
        /\ run[p].last_date # None
        /\ run[p].start_date <= run[p].end_date

\* C9: a run whose start date is after its end date issues no fetch, calls
\* save_data zero times, leaves the four tables unchanged and exits with 0.
C9_NoOpSafety ==
    \A p \in Procs :
        (PastWindow(run[p]) /\ run[p].start_date > run[p].end_date)
        => /\ run[p].pc = "exited"
           /\ run[p].exit_code = Some(0)
           /\ ~run[p].fetch_called
           /\ run[p].save_calls = 0
           /\ store = run[p].pre

\* C9 witness: a run on a day the dimension already contains ended by the skip.
C9_Witness ==
    \E p \in Procs :
        /\ run[p].pc = "exited" /\ run[p].cause = "skip"
        /\ run[p].last_date = Some(today)

\* C10: fetch_ga4_data makes at most 3 attempts; when all 3 fail the run exits
\* with 1, save_data was not called and no table has changed.
C10_RetryExhaustion ==
    \A p \in Procs :
        /\ run[p].attempts <= 3
        /\ run[p].attempts = 3
           => /\ run[p].pc = "exited"
              /\ run[p].exit_code = Some(1)
              /\ run[p].cause = "fetch"
              /\ run[p].save_calls = 0
              /\ store = run[p].pre

\* C10 witness: the third attempt of a fetch failed on a non-empty store.
C10_Witness ==
    \E p \in Procs : run[p].attempts = 3 /\ user_interaction # <<>>

\* C11: a run whose fetch succeeded with three empty record sets does not call
\* save_data, adds no row to dates or to a fact table and exits with 0: a run
\* that ended on the empty response has status 0, no save_data call and the
\* store of its start, and a run inside save_data holds at least one record.
C11_EmptyResponseNoOp ==
    \A p \in Procs :
        /\ (run[p].pc = "exited" /\ run[p].cause = "empty")
           => /\ run[p].exit_code = Some(0)
              /\ run[p].fetch_called
              /\ run[p].save_calls = 0
              /\ store = run[p].pre
        /\ run[p].save_calls > 0 /\ run[p].pc = "save_collect"
           => Len(run[p].data.users) + Len(run[p].data.content)
                + Len(run[p].data.site) > 0

\* C11 witness: a run on a store that holds rows ended on an empty response.
C11_Witness ==
    \E p \in Procs :
        /\ run[p].pc = "exited" /\ run[p].cause = "empty"
        /\ dates # <<>> /\ user_interaction # <<>>

\* C12: a storage failure or a date-parse failure inside get_last_date makes it
\* return None instead of raising, and the run goes on with the window that
\* starts 30 days before today: no run ends because get_last_date raised, a
\* run past get_last_date on a maximum that matches neither format holds None,
\* and a run with None uses the default window.
C12_WatermarkSoftFailure ==
    \A p \in Procs :
        /\ ~(run[p].pc = "exited" /\ run[p].cause = "get_last_date")
        /\ (run[p].pc = "window" /\ run[p].pre.dates # <<>>
              /\ DayOf(SelectMaxDate(run[p].pre.dates)[1]) = None)
           => run[p].last_date = None
        /\ (PastWindow(run[p]) /\ run[p].last_date = None)
           => run[p].start_date = run[p].end_date - 30

\* The position of a statement of main in the order of execution, counted from
\* the end.
PcRank(pc) ==
    CASE pc = "init_db" -> 12
      [] pc = "get_last_date" -> 11
      [] pc = "window" -> 10
      [] pc = "fetch" -> 9
      [] pc = "fetched" -> 8
      [] pc = "save_collect" -> 7
      [] pc \in {"resolve", "date_insert"} -> 6
      [] pc = "users" -> 5
      [] pc = "content" -> 4
      [] pc = "site" -> 3
      [] pc = "commit" -> 2
      [] pc = "export" -> 1
      [] OTHER -> 0

\* A measure of the work a run has left: the statements of main still ahead,
\* then the attempts the retry still allows or the dates still to resolve.
Rank(r) ==
    PcRank(r.pc) * 100
      + (IF r.pc = "fetch" THEN 3 - r.attempts
         ELSE IF r.pc = "resolve" THEN 2 * Cardinality(r.all_dates) + 1
         ELSE IF r.pc = "date_insert" THEN 2 * Cardinality(r.all_dates)
         ELSE 0)

\* C13: every run ends in exactly one outcome: status 0 exactly when it saved,
\* skipped or got an all-empty response, status 1 exactly when a step raised
\* (schema creation, watermark lookup, fetch after its retries, save); and no
\* run loops: every step of a running process lowers its remaining work, of
\* which the attempts of the fetch are at most 3.
C13_Step ==
    \A p \in Procs :
        /\ (run[p].pc \notin {"off", "idle", "exited"} /\ run'[p] # run[p])
           => /\ Rank(run'[p]) < Rank(run[p])
              /\ Rank(run'[p]) >= 0
        /\ run'[p].attempts <= 3
        /\ run'[p].pc = "exited"
           => /\ run'[p].exit_code \in {Some(0), Some(1)}
              /\ run'[p].exit_code = Some(0)
                   <=> run'[p].cause \in {"saved", "skip", "empty"}
              /\ run'[p].exit_code = Some(1)
                   <=> run'[p].cause \in {"init_db", "get_last_date", "fetch",
                                          "save_collect", "resolve", "date_insert",
                                          "insert", "commit", "export"}
        /\ run'[p].pc # "exited" => run'[p].exit_code = None

C13_ExactlyOneOutcome == [][C13_Step]_vars

\* C13 witness: on a store that an earlier run filled, a run ended with status 1
\* after its fetch used up the three attempts.
C13_Witness ==
    \E p \in Procs :
        /\ run[p].pc = "exited" /\ run[p].exit_code = Some(1)
        /\ run[p].cause = "fetch" /\ run[p].attempts = 3
        /\ site_data # <<>>

\* C14: the export starts only after the commit, and an export that raises
\* unwinds nothing: when a run is at the export, its transaction is closed and
\* every fact table is the table of the run's start followed by one row per
\* record of the call, each date of the call is in dates; the step that ends
\* the export, raising or not, leaves the four tables as they are, and the
\* raising one ends the run with status 1 and nothing rolled back.
C14_Step ==
    \A p \in Procs :
        run[p].pc = "export"
        => /\ run[p].pending = EmptyData
           /\ writer # Some(p)
           /\ \A t \in Tables :
                 TableOf(t) = run[p].pre[t]
                    \o Inserted(run[p].pre[t], run[p].data[t], run[p].date_map,
                                Len(run[p].data[t]))
           /\ \A d \in AllDates(run[p].data) : \E r \in Range(dates) : r.date = d
           /\ store' = store
           /\ run'[p].cause = "export"
                => /\ run'[p].pc = "exited"
                   /\ run'[p].exit_code = Some(1)
                   /\ run'[p].discarded = 0

C14_ExportKeepsCommit == [][C14_Step]_vars

\* C14 witness: a run ended because an export file could not be written, and
\* the rows of its save_data call are in the store.
C14_Witness ==
    \E p \in Procs :
        /\ run[p].pc = "exited" /\ run[p].cause = "export"
        /\ Len(dates) > Len(run[p].pre.dates)
        /\ Len(user_interaction) > Len(run[p].pre.users)
        /\ Len(content_metrics) > Len(run[p].pre.content)
        /\ Len(site_data) > Len(run[p].pre.site)

\* The rows are what one save_data call made of the records of df: one row per
\* record, in order, with the date_id of the record's date.
RowsOfRecords(rows, df, dim) ==
    /\ Len(rows) = Len(df)
    /\ \A i \in DOMAIN df :
         \E r \in Range(dim) : r.date = df[i].date /\ rows[i].date_id = r.date_id

\* The store at the run's start is the result of one save_data call with the
\* records the run is saving now.
SavedBefore(r) ==
    /\ \A t \in Tables : RowsOfRecords(r.pre[t], r.data[t], r.pre.dates)
    /\ {x.date : x \in Range(r.pre.dates)} = AllDates(r.data)

\* C15: with a single writer, a second successful save_data call with the
\* records of the first leaves in each fact table twice the rows of the
\* records, the second half repeating the date_ids of the first, and leaves
\* dates as the first call left it, with one row per distinct date.
C15_SaveTwice ==
    \A p \in Procs :
        (run[p].pc = "export" /\ SavedBefore(run[p]))
        => /\ \A t \in Tables :
                 LET n == Len(run[p].data[t])
                 IN  /\ Len(TableOf(t)) = 2 * n
                     /\ \A i \in 1..n :
                          TableOf(t)[n + i].date_id = TableOf(t)[i].date_id
           /\ dates = run[p].pre.dates
           /\ Len(dates) = Cardinality(AllDates(run[p].data))

\* C15 witness: the second call with the records of two dates has committed.
C15_Witness ==
    \E p \in Procs :
        /\ run[p].pc = "export" /\ SavedBefore(run[p])
        /\ Cardinality(AllDates(run[p].data)) = 2
        /\ Len(content_metrics) = 4

\* ------------------------------------------- rows with arbitrary date values
\* The values the source may put into the date dimension of a row: the compact
\* form of a day, the placeholder "(other)" of an overflow row, or the empty text.
SourceTexts(day) == {FormatCompact(day), <<40, 111, 116, 104, 101, 114, 41>>, <<>>}

\* response.rows: one row per value, in the byte-wise order of the values.
RECURSIVE TextRows(_)
TextRows(texts) ==
    IF texts = {} THEN <<>>
    ELSE LET t == CHOOSE x \in texts : \A y \in texts : ~TextLess(y, x)
         IN  <<[date |-> t]>> \o TextRows(texts \ {t})

\* One attempt of fetch_ga4_data in which the three reports succeed, the rows
\* carrying any of the source's date values: process_response slices each
\* value, whatever its length, and the call returns.
FetchReported(p) ==
    /\ run[p].pc = "fetch"
    /\ \E texts \in SUBSET SourceTexts(run[p].end_date) :
          Set(p, [run[p] EXCEPT
                    !.pc = "fetched",
                    !.attempts = 0,
                    !.fetch_called = TRUE,
                    !.data = [users   |-> ProcessResponse(TextRows(texts), "user"),
                              content |-> ProcessResponse(TextRows(texts), "content"),
                              site    |-> ProcessResponse(TextRows(texts), "site")]])
    /\ UNCHANGED <<today, schema, dates, user_interaction, content_metrics,
                   site_data, writer, launched, resolved, prev_failed>>

\* The runs in which no storage or transport operation fails.
NextSource ==
    \/ Start("p1")
    \/ InitDb("p1")
    \/ GetLastDate("p1")
    \/ Window("p1")
    \/ FetchReported("p1")
    \/ CheckEmpty("p1")
    \/ SaveCollect("p1")
    \/ DateLookup("p1")
    \/ DateInsert("p1")
    \/ InsertFacts("p1")
    \/ Commit("p1")
    \/ Export("p1")

SpecSource == Init /\ [][NextSource]_vars

\* C16: a row whose date value is not an 8-digit YYYYMMDD text makes the
\* normalisation raise, so that no run goes on with a record made of such a
\* row, the run ends with status 1 and stores nothing of the response; dates
\* never holds a text that is not a canonical date.
C16_MalformedDateIsFatal ==
    /\ \A r \in Range(dates) : ParseISO(r.date) # None
    /\ \A p \in Procs :
         \A t \in Tables :
            \A i \in DOMAIN run[p].data[t] : ParseISO(run[p].data[t][i].date) # None

\* ------------------------------------------------- two concurrent processes
\* Two processes were launched on the same day on an empty store; each has
\* fetched rows for some days of the window and has entered save_data.
InitConcurrent ==
    /\ today = FirstToday
    /\ schema = TRUE
    /\ dates = <<>>
    /\ user_interaction = <<>>
    /\ content_metrics = <<>>
    /\ site_data = <<>>
    /\ writer = None
    /\ launched = 2
    /\ resolved = {}
    /\ prev_failed = None
    /\ LET end_date   == FirstToday
           start_date == StartDate(None, end_date)
           days == SourceDays(FormatISO(start_date), FormatISO(end_date))
       IN  \E seen \in [Procs -> SUBSET days \ {{}}] :
             run = [p \in Procs |->
                      [IdleRun EXCEPT
                         !.pc = "save_collect",
                         !.start_date = start_date,
                         !.end_date = end_date,
                         !.fetch_called = TRUE,
                         !.save_calls = 1,
                         !.data = [users   |-> ProcessResponse(ReportRows(seen[p]), "user"),
                                   content |-> ProcessResponse(ReportRows(seen[p]), "content"),
                                   site    |-> ProcessResponse(ReportRows(seen[p]), "site")]]]

\* The steps of save_data in which nothing fails but what the other process
\* causes.
NextConcurrent ==
    \E p \in Procs :
        \/ SaveCollect(p)
        \/ DateLookup(p)
        \/ DateInsert(p)
        \/ InsertFacts(p)
        \/ Commit(p)
        \/ Export(p)

SpecConcurrent == InitConcurrent /\ [][NextConcurrent]_vars

\* A process has looked a date up, found no row, and has not inserted yet,
\* while another process, which had looked up before, has inserted the date.
LostRace(p) ==
    /\ run[p].pc = "date_insert"
    /\ \E r \in Range(dates) : r.date = run[p].date_str

\* C17 as stated: when two processes both look a date up before either
\* inserts, the insert of the second leaves two rows for the date in dates.
C17_DuplicateRows ==
    [][\A p \in Procs :
         (LostRace(p) /\ run'[p] # run[p])
         => Cardinality({i \in DOMAIN dates' : dates'[i].date = run[p].date_str}) = 2]_vars

\* C17, amended: when two processes both look a date up before either inserts,
\* the INSERT of the second violates the UNIQUE constraint of dates.date: it
\* adds no row, get_or_create_date_id raises and that process exits with
\* status 1; dates never holds two rows for one value.
C17_Step ==
    /\ \A i, j \in DOMAIN dates' : i # j => dates'[i].date # dates'[j].date
    /\ \A p \in Procs :
         (LostRace(p) /\ run'[p] # run[p])
         => /\ dates' = dates
            /\ run'[p].pc = "exited"
            /\ run'[p].exit_code = Some(1)
            /\ run'[p].cause = "date_insert"

C17_SecondInsertRejected == [][C17_Step]_vars

\* C17 witness: one process inserted the date and has not begun its fact
\* transaction, the other lost the race and has exited.
C17_Witness ==
    \E p, q \in Procs :
        /\ run[p].pc = "exited" /\ run[p].cause = "date_insert"
        /\ run[p].exit_code = Some(1)
        /\ run[q].pc = "users" /\ writer = None
        /\ Len(dates) = 1

\* One or two of the three categories hold no record.
PartlyEmpty(data) ==
    /\ \E t \in Tables : data[t] = <<>>
    /\ \E t \in Tables : data[t] # <<>>

\* C18: save_data called with a result of which one or two categories are
\* empty succeeds and commits one fact row per record: its first statement,
\* the collection of the dates of the three frames, does not raise but hands
\* the dates of the non-empty frames to the resolution (no storage operation
\* is involved in that statement, so nothing else can make it fail).
C18_PartialResultSaved ==
    [][\A p \in Procs :
         (run[p].pc = "save_collect" /\ PartlyEmpty(run[p].data) /\ run'[p] # run[p])
         => /\ run'[p].pc = "resolve"
            /\ run'[p].all_dates = AllDates(run[p].data)]_vars

\* ------------------------------------------- fetch_ga4_data, query by query
\* The order of the three client.run_report calls of one attempt.
QueryOrder == <<"users", "content", "site">>

\* Variant: the retry resumes at the failed query and keeps the reports the
\* failed attempt had received.
RetryLocalsKept(responses) == responses

\* The retry calls fetch_ga4_data again: the locals of the failed attempt
\* (user_response, content_response, site_response) are gone.
RetryLocals(responses) == <<>>

\* The attempt raises: the retry starts the next attempt or, after the last
\* one, the error reaches main, which exits with status 1.
AttemptRaised(r) ==
    LET f == [r EXCEPT !.attempts = @ + 1, !.fetch_called = TRUE,
                       !.responses = RetryLocals(@)]
    IN  IF RetryStop(f.attempts) THEN Exit(f, 1, "fetch") ELSE f

\* A process has computed its window on an empty store and calls
\* fetch_ga4_data.
InitFetch ==
    /\ today = FirstToday
    /\ schema = TRUE
    /\ dates = <<>>
    /\ user_interaction = <<>>
    /\ content_metrics = <<>>
    /\ site_data = <<>>
    /\ writer = None
    /\ launched = 1
    /\ resolved = {}
    /\ prev_failed = None
    /\ run = [p \in Procs |->
                IF p = "p1"
                THEN [IdleRun EXCEPT !.pc = "fetch",
                                     !.start_date = StartDate(None, FirstToday),
                                     !.end_date = FirstToday]
                ELSE OffRun]

\* The creation of the client raises, before any query of the attempt.
FetchClientFail(p) ==
    /\ run[p].pc = "fetch"
    /\ run[p].responses = <<>>
    /\ Set(p, AttemptRaised(run[p]))
    /\ UNCHANGED <<today, schema, dates, user_interaction, content_metrics,
                   site_data, writer, launched, resolved, prev_failed>>

\* client.run_report: the next query of the attempt is sent and answered with
\* rows for any days of the range the source holds.
RunReport(p) ==
    /\ run[p].pc = "fetch"
    /\ Len(run[p].responses) < Len(QueryOrder)
    /\ LET type == QueryOrder[Len(run[p].responses) + 1]
           days == SourceDays(FormatISO(run[p].start_date), FormatISO(run[p].end_date))
       IN  \E seen \in SUBSET days :
             Set(p, [run[p] EXCEPT
                       !.fetch_called = TRUE,
                       !.issued = Append(@, <<run[p].attempts + 1, type>>),
                       !.responses = Append(@, [type |-> type,
                                                attempt |-> run[p].attempts + 1,
                                                rows |-> ReportRows(seen)])])
    /\ UNCHANGED <<today, schema, dates, user_interaction, content_metrics,
                   site_data, writer, launched, resolved, prev_failed>>

\* client.run_report: the next query of the attempt is sent and raises.
RunReportFail(p) ==
    /\ run[p].pc = "fetch"
    /\ Len(run[p].responses) < Len(QueryOrder)
    /\ LET type == QueryOrder[Len(run[p].responses) + 1]
       IN  Set(p, AttemptRaised([run[p] EXCEPT
                                   !.issued = Append(@, <<run[p].attempts + 1, type>>)]))
    /\ UNCHANGED <<today, schema, dates, user_interaction, content_metrics,
                   site_data, writer, launched, resolved, prev_failed>>

\* The three reports of the attempt are normalised and the call returns.
Normalize(p) ==
    /\ run[p].pc = "fetch"
    /\ Len(run[p].responses) = Len(QueryOrder)
    /\ Set(p, [run[p] EXCEPT
                 !.pc = "fetched",
                 !.data = [users   |-> ProcessResponse(run[p].responses[1].rows, "user"),
                           content |-> ProcessResponse(run[p].responses[2].rows, "content"),
                           site    |-> ProcessResponse(run[p].responses[3].rows, "site")]])
    /\ UNCHANGED <<today, schema, dates, user_interaction, content_metrics,
                   site_data, writer, launched, resolved, prev_failed>>

\* process_response raises on a metric value that int() or float() rejects.
NormalizeFail(p) ==
    /\ run[p].pc = "fetch"
    /\ Len(run[p].responses) = Len(QueryOrder)
    /\ Set(p, AttemptRaised(run[p]))
    /\ UNCHANGED <<today, schema, dates, user_interaction, content_metrics,
                   site_data, writer, launched, resolved, prev_failed>>

NextFetch ==
    \/ FetchClientFail("p1")
    \/ RunReport("p1")
    \/ RunReportFail("p1")
    \/ Normalize("p1")
    \/ NormalizeFail("p1")

SpecFetch == InitFetch /\ [][NextFetch]_vars

\* The categories of the queries the call sent in its attempt number k, in the
\* order of sending.
QueriesOf(issued, k) ==
    LET InAttempt(e) == e[1] = k
        sent == SelectSeq(issued, InAttempt)
    IN  [i \in DOMAIN sent |-> sent[i][2]]

\* q is the beginning of: engagement, content, site-search.
InQueryOrder(q) ==
    /\ Len(q) <= 3
    /\ \A i \in DOMAIN q : q[i] = <<"users", "content", "site">>[i]

\* C19: one call of fetch_ga4_data makes at most 3 attempts, one after the
\* other; each attempt sends the engagement, content and site-search queries
\* in that order and stops at the first that fails; an attempt after a failure
\* starts again with the engagement query and holds only reports of its own
\* queries; the call returns from the first attempt whose three queries and
\* normalisation succeed, with a result made of the three reports of that
\* attempt, and sends nothing afterwards.
C19_RetryWholeFetch ==
    \A p \in Procs :
        LET r == run[p]
            cur == r.attempts + 1
        IN  /\ r.attempts <= 3
            /\ \A i \in DOMAIN r.issued : r.issued[i][1] \in 1..3
            /\ \A i, j \in DOMAIN r.issued : i < j => r.issued[i][1] <= r.issued[j][1]
            /\ \A k \in 1..3 : InQueryOrder(QueriesOf(r.issued, k))
            /\ \A i \in DOMAIN r.responses :
                  /\ r.responses[i].attempt = cur
                  /\ r.responses[i].type = <<"users", "content", "site">>[i]
            /\ r.pc = "fetch" => Len(QueriesOf(r.issued, cur)) = Len(r.responses)
            /\ r.pc = "fetched"
                 => /\ Len(r.responses) = 3
                    /\ QueriesOf(r.issued, cur) = <<"users", "content", "site">>
                    /\ \A i \in DOMAIN r.issued : r.issued[i][1] <= cur
                    /\ r.data = [users   |-> ProcessResponse(r.responses[1].rows, "user"),
                                 content |-> ProcessResponse(r.responses[2].rows, "content"),
                                 site    |-> ProcessResponse(r.responses[3].rows, "site")]
            /\ (r.pc = "exited" /\ r.cause = "fetch")
                 => r.attempts = 3 /\ r.exit_code = Some(1)

\* C19 witness: the call returned from its third attempt, after an attempt
\* that failed at its content query and one that failed at its site query.
C19_Witness ==
    \E p \in Procs :
        /\ run[p].pc = "fetched" /\ run[p].attempts = 2
        /\ QueriesOf(run[p].issued, 1) = <<"users", "content">>
        /\ QueriesOf(run[p].issued, 2) = <<"users", "content", "site">>
        /\ run[p].data.users # <<>>

\* Every row of the committed table a is in b, at the same place and unchanged.
IsPrefix(a, b) == Len(a) <= Len(b) /\ SubSeq(b, 1, Len(a)) = a

\* C20: no step of a run (init_db, get_last_date, get_or_create_date_id,
\* save_data, succeeding or failing) changes or removes a committed row: each
\* of the four tables after a step begins with the table before the step, so
\* a date keeps its date_id and the committed rows only grow.
C20_AppendOnly ==
    [][/\ IsPrefix(dates, dates')
       /\ IsPrefix(user_interaction, user_interaction')
       /\ IsPrefix(content_metrics, content_metrics')
       /\ IsPrefix(site_data, site_data')]_vars

\* C20 witness: on a store with rows of an earlier run, a run added a date and
\* then failed in save_data.
C20_Witness ==
    \E p \in Procs :
        /\ SaveFailed(run[p])
        /\ run[p].pre.dates # <<>> /\ run[p].pre.users # <<>>
        /\ Len(dates) > Len(run[p].pre.dates)
        /\ run[p].discarded > 0

====
